---- MODULE Spec2Model ----
(***************************************************************************)
(* Model of the two documentation notebooks of the repository:             *)
(*   - "Add fallbacks"      (src/unnamed/part_000)                         *)
(*   - "Add chat history"   (src/docs/docs/use_cases/question_answering/   *)
(*                           chat_history.ipynb)                           *)
(* The notebooks compose runnables of the library (sequences, prompts,     *)
(* models, parsers, fallback wrappers).  The runnables the notebooks build *)
(* are constants of the model, every executed cell is an action, and the   *)
(* library's invoke is an operator that returns the result together with   *)
(* the log of the calls it made.                                           *)
(***************************************************************************)
EXTENDS Integers, Sequences, FiniteSets, TLC

VARIABLES
    cell,          \* fallbacks notebook: the cell executed last
    input,         \* fallbacks notebook: the input handed to invoke
    env,           \* fallbacks notebook: what each remote API answers, call by call
    result,        \* fallbacks notebook: what invoke returned or raised
    log,           \* fallbacks notebook: the calls made by the invocation, in order
    printed,       \* fallbacks notebook: what the cell printed or displayed
    chat_history,  \* chat notebook: the caller's chat_history list
    question,      \* chat notebook: the question of the current turn
    ai_msg,        \* chat notebook: the value rag_chain.invoke returned
    pc,            \* chat notebook: position inside the current rag_chain.invoke
    chain_input,   \* chat notebook: the dict travelling through rag_chain
    query,         \* chat notebook: output of the contextualized_question step
    docs,          \* chat notebook: documents the retriever returned
    messages,      \* chat notebook: the prompt messages built last
    trace,         \* chat notebook: steps completed by the current invocation, with their input
    turns,         \* chat notebook: completed turns (invoke followed by extend)
    invocations,   \* chat notebook: calls of rag_chain.invoke made so far
    routed         \* chat notebook: what contextualized_question returned or raised

fbVars == <<cell, input, env, result, log, printed>>
chatVars == <<chat_history, question, ai_msg, pc, chain_input, query, docs, messages, trace, turns, invocations, routed>>
vars == <<cell, input, env, result, log, printed,
          chat_history, question, ai_msg, pc, chain_input, query, docs, messages, trace, turns, invocations, routed>>

(***************************************************************************)
(* Values.  Every value that flows through a chain is a record of one      *)
(* shape: its Python type, the key of a one-entry dict, and its text.      *)
(***************************************************************************)
Str(t) == [type |-> "str", key |-> "", text |-> t]
Dict(k, t) == [type |-> "dict", key |-> k, text |-> t]
NoValue == [type |-> "None", key |-> "", text |-> ""]

(***************************************************************************)
(* Exception classes and Python's isinstance over their hierarchy.         *)
(***************************************************************************)
Bases(e) ==
    CASE e = "RateLimitError" -> {"RateLimitError", "Exception", "BaseException"}
      [] e = "NotFoundError" -> {"NotFoundError", "Exception", "BaseException"}
      [] e = "KeyError" -> {"KeyError", "Exception", "BaseException"}
      [] e = "KeyboardInterrupt" -> {"KeyboardInterrupt", "BaseException"}
      [] OTHER -> {e, "BaseException"}

IsInstance(e, classes) == (Bases(e) \cap classes) # {}

\* with_fallbacks(..., exceptions_to_handle=(Exception,)) is the default
DefaultExceptionsToHandle == {"Exception"}

\* the error built by the mock cell: RateLimitError("rate limit", ...)
error == "RateLimitError"

\* the wrappers' default number of retries, and the errors they retry on
DefaultMaxRetries == 2
Retryable == {"RateLimitError"}

(***************************************************************************)
(* Runnables.  One record shape for every runnable of the library:         *)
(*   kind         the class                                                *)
(*   name         the notebook variable it is bound to                     *)
(*   max_retries  a model's own retry budget                               *)
(*   steps        the steps of a sequence; for a fallback wrapper, the     *)
(*                primary runnable followed by its fallbacks               *)
(*   handle       a fallback wrapper's exceptions_to_handle                *)
(*   tvar, pre, post   a prompt template: text before and after its one    *)
(*                input variable                                           *)
(***************************************************************************)
Runnable(kind, name, max_retries, steps, handle, tvar, pre, post) ==
    [kind |-> kind, name |-> name, max_retries |-> max_retries, steps |-> steps,
     handle |-> handle, tvar |-> tvar, pre |-> pre, post |-> post]

ChatModel(kind, name, max_retries) == Runnable(kind, name, max_retries, <<>>, {}, "", "", "")
Prompt(kind, name, tvar, pre, post) == Runnable(kind, name, 0, <<>>, {}, tvar, pre, post)
StrOutputParser == Runnable("StrOutputParser", "StrOutputParser", 0, <<>>, {}, "", "", "")

IsModel(r) == r.kind \in {"ChatOpenAI", "ChatAnthropic", "OpenAI"}
IsPrompt(r) == r.kind \in {"ChatPromptTemplate", "PromptTemplate"}

\* a | b: a sequence; piping into or out of a sequence extends it
StepsOf(r) == IF r.kind = "RunnableSequence" THEN r.steps ELSE <<r>>
Pipe(a, b) == Runnable("RunnableSequence", "", 0, StepsOf(a) \o StepsOf(b), {}, "", "", "")

\* r.with_fallbacks(fallbacks, exceptions_to_handle=handle)
WithFallbacks(r, fallbacks, handle) ==
    Runnable("RunnableWithFallbacks", "", 0, <<r>> \o fallbacks, handle, "", "", "")

(***************************************************************************)
(* invoke.  The outcome of a call is a record: ok, the value returned, the *)
(* class of the error raised, and the log extended by the calls made.      *)
(***************************************************************************)
Returned(val, lg) == [ok |-> TRUE, val |-> val, err |-> "", log |-> lg]
Raised(err, lg) == [ok |-> FALSE, val |-> NoValue, err |-> err, log |-> lg]

\* a logged call: the runnable, whether it ran as the primary or as a fallback of
\* the nearest enclosing fallback wrapper, its input, its outcome ("ok" or the
\* error class) and, for a model, which attempt of the invocation it was
Event(r, branch, in, outcome, attempt) ==
    [name |-> r.name, kind |-> r.kind, branch |-> branch, input |-> in,
     outcome |-> outcome, attempt |-> attempt]

CallsTo(lg, name) == Cardinality({i \in 1..Len(lg) : lg[i].name = name})

\* what a model returns: chat models an AIMessage, the completion model a str
ModelOutput(m, in) ==
    [type |-> IF m.kind = "OpenAI" THEN "str" ELSE "AIMessage",
     key |-> "",
     text |-> m.name \o " answers <" \o in.text \o ">"]

\* one model call with the wrapper's own retrying: the remote API is asked
\* again while it raises a retryable error and retries are left
RECURSIVE GenerateWithRetry(_, _, _, _, _, _)
GenerateWithRetry(m, in, e, lg, branch, retries_taken) ==
    LET outcome == e[m.name][CallsTo(lg, m.name) + 1]
        lg2 == Append(lg, Event(m, branch, in, outcome, retries_taken + 1))
    IN  IF outcome = "ok" THEN Returned(ModelOutput(m, in), lg2)
        ELSE IF outcome \in Retryable /\ retries_taken < m.max_retries
             THEN GenerateWithRetry(m, in, e, lg2, branch, retries_taken + 1)
             ELSE Raised(outcome, lg2)

\* a prompt template formats its one input variable, taken from a dict input
FormatPrompt(p, in, lg, branch) ==
    IF in.type = "dict" /\ in.key = p.tvar
    THEN Returned([type |-> IF p.kind = "ChatPromptTemplate" THEN "ChatPromptValue"
                                                            ELSE "StringPromptValue",
                   key |-> "",
                   text |-> p.pre \o in.text \o p.post],
                  Append(lg, Event(p, branch, in, "ok", 1)))
    ELSE Raised("KeyError", Append(lg, Event(p, branch, in, "KeyError", 1)))

\* StrOutputParser: the content of a message, as a str
ParseStr(p, in, lg, branch) ==
    Returned(Str(in.text), Append(lg, Event(p, branch, in, "ok", 1)))

RECURSIVE Invoke(_, _, _, _, _)
RECURSIVE InvokeSequence(_, _, _, _, _, _)
RECURSIVE InvokeWithFallbacks(_, _, _, _, _, _)

\* RunnableSequence.invoke: each step receives the previous step's output;
\* the first error ends the sequence
InvokeSequence(r, i, in, e, lg, branch) ==
    IF i > Len(r.steps) THEN Returned(in, lg)
    ELSE LET out == Invoke(r.steps[i], in, e, lg, branch)
         IN  IF out.ok THEN InvokeSequence(r, i + 1, out.val, e, out.log, branch)
             ELSE out

\* RunnableWithFallbacks.invoke: the primary, then each fallback in turn, every
\* one on the wrapper's own input; a handled error moves on to the next runnable,
\* any other error is raised at once; when all have failed the first error is raised
InvokeWithFallbacks(r, i, in, e, lg, first_error) ==
    IF i > Len(r.steps) THEN Raised(first_error, lg)
    ELSE LET out == Invoke(r.steps[i], in, e, lg, IF i = 1 THEN "primary" ELSE "fallback")
         IN  IF out.ok THEN out
             ELSE IF IsInstance(out.err, r.handle)
                  THEN InvokeWithFallbacks(r, i + 1, in, e, out.log,
                                           IF first_error = "" THEN out.err ELSE first_error)
                  ELSE out

Invoke(r, in, e, lg, branch) ==
    CASE r.kind = "RunnableSequence" -> InvokeSequence(r, 1, in, e, lg, branch)
      [] r.kind = "RunnableWithFallbacks" -> InvokeWithFallbacks(r, 1, in, e, lg, "")
      [] IsModel(r) -> GenerateWithRetry(r, in, e, lg, branch, 0)
      [] IsPrompt(r) -> FormatPrompt(r, in, lg, branch)
      [] OTHER -> ParseStr(r, in, lg, branch)

(***************************************************************************)
(* The "Add fallbacks" notebook: the runnables its cells build.            *)
(***************************************************************************)
\* faulty variant: max_retries=0 forgotten, the wrapper keeps its default retrying
openai_llm_retrying == ChatModel("ChatOpenAI", "openai_llm", DefaultMaxRetries)
openai_llm == ChatModel("ChatOpenAI", "openai_llm", 0)
anthropic_llm == ChatModel("ChatAnthropic", "anthropic_llm", DefaultMaxRetries)
\* faulty variant: the list of fallbacks left empty
llm_without_fallback == WithFallbacks(openai_llm, <<>>, DefaultExceptionsToHandle)
\* faulty variant: primary and fallback exchanged
llm_swapped == WithFallbacks(anthropic_llm, <<openai_llm>>, DefaultExceptionsToHandle)
llm == WithFallbacks(openai_llm, <<anthropic_llm>>, DefaultExceptionsToHandle)

prompt ==
    Prompt("ChatPromptTemplate", "prompt", "animal",
           "system: You're a nice assistant who always includes a compliment in your response / human: Why did the ",
           " cross the road")
chain == Pipe(prompt, llm)

\* faulty variant: exceptions_to_handle not passed on
llm_e4069ca4_default == WithFallbacks(openai_llm, <<anthropic_llm>>, DefaultExceptionsToHandle)
llm_e4069ca4 == WithFallbacks(openai_llm, <<anthropic_llm>>, {"KeyboardInterrupt"})
chain_e4069ca4 == Pipe(prompt, llm_e4069ca4)

chat_prompt ==
    Prompt("ChatPromptTemplate", "chat_prompt", "animal",
           "system: You're a nice assistant who always includes a compliment in your response / human: Why did the ",
           " cross the road")
chat_model == ChatModel("ChatOpenAI", "chat_model", DefaultMaxRetries)
\* faulty variant: the string output parser left off the chat-model chain
bad_chain_unparsed == Pipe(chat_prompt, chat_model)
bad_chain == Pipe(Pipe(chat_prompt, chat_model), StrOutputParser)

prompt_8d1fc2a5 ==
    Prompt("PromptTemplate", "prompt_8d1fc2a5", "animal",
           "Instructions: You should always include a compliment in your response. Question: Why did the ",
           " cross the road?")
llm_8d1fc2a5 == ChatModel("OpenAI", "OpenAI", DefaultMaxRetries)
\* faulty variant: the completion model used as the fallback without its own prompt
good_chain_without_prompt == llm_8d1fc2a5
good_chain == Pipe(prompt_8d1fc2a5, llm_8d1fc2a5)

chain_283bfa44 == WithFallbacks(bad_chain, <<good_chain>>, DefaultExceptionsToHandle)

(***************************************************************************)
(* The remote APIs.  An environment gives, for every model, the outcome of *)
(* its successive API calls within one invocation.                         *)
(***************************************************************************)
ModelNames == {"openai_llm", "anthropic_llm", "chat_model", "OpenAI"}
EnvLen == DefaultMaxRetries + 1
AllOutcomes == {"ok", "RateLimitError", "KeyboardInterrupt", "NotFoundError"}

\* what a call of a model's API can do: answer, or raise one of the errors
OutcomesOf(m) ==
    IF m \in {"openai_llm", "chat_model", "OpenAI"} THEN AllOutcomes
    ELSE {"ok", "RateLimitError", "KeyboardInterrupt"}

\* "gpt-fake" is no model of the API: a call naming it never succeeds
BadModelName(e) == \A i \in 1..EnvLen : e["chat_model"][i] # "ok"

Quiet == [i \in 1..EnvLen |-> "ok"]

Envs(relevant) ==
    {[m \in ModelNames |-> IF m \in relevant THEN f[m] ELSE Quiet] :
        f \in {g \in [relevant -> [1..EnvLen -> AllOutcomes]] :
                  \A m \in relevant : \A i \in 1..EnvLen : g[m][i] \in OutcomesOf(m)}}

\* patch("openai.resources.chat.completions.Completions.create", side_effect=error):
\* every call of the OpenAI chat completions API raises the mocked error
Patch(e) ==
    [m \in ModelNames |->
        IF m \in {"openai_llm", "chat_model"} THEN [i \in 1..EnvLen |-> error] ELSE e[m]]

Animals == {"kangaroo", "turtle"}
ChainInputs == {Dict("animal", a) : a \in Animals} \cup {Dict("topic", "bears")}
Questions == {"Why did the chicken cross the road?", "hello"}

(***************************************************************************)
(* Cells.  A cell invokes a runnable; the guarded cells print the result   *)
(* or catch RateLimitError and print "Hit error".                          *)
(***************************************************************************)
Outcome(out) == [ok |-> out.ok, val |-> out.val, err |-> out.err]

Shown(out, guarded) ==
    IF out.ok THEN out.val.text
    ELSE IF guarded /\ IsInstance(out.err, {"RateLimitError"}) THEN "Hit error"
    ELSE "Traceback: " \o out.err

\* An invocation carries no state over to the next one (the runnables are
\* never modified), so a behaviour executes one cell from the fresh kernel.
Fresh == cell = "none"

RunCell(id, r, in, e, guarded) ==
    LET out == Invoke(r, in, e, <<>>, "plain")
    IN  /\ cell' = id
        /\ input' = in
        /\ env' = e
        /\ result' = Outcome(out)
        /\ log' = out.log
        /\ printed' = Shown(out, guarded)
        /\ UNCHANGED chatVars

\* faulty variant: the cell invokes the wrapped llm instead of openai_llm
Cell_584461ab_wrapped ==
    /\ Fresh
    /\ \E e \in Envs({"anthropic_llm"}) :
            RunCell("584461ab", llm, Str("Why did the chicken cross the road?"), Patch(e), TRUE)

\* "Let's use just the OpenAI LLm first, to show that we run into an error"
Cell_584461ab ==
    /\ Fresh
    /\ \E e \in Envs({}) :
            RunCell("584461ab", openai_llm, Str("Why did the chicken cross the road?"), Patch(e), TRUE)

\* "Now let's try with fallbacks to Anthropic"
Cell_4fc1e673 ==
    /\ Fresh
    /\ \E e \in Envs({"anthropic_llm"}) :
            RunCell("4fc1e673", llm, Str("Why did the chicken cross the road?"), Patch(e), TRUE)

\* chain = prompt | llm, under the patch
Cell_4f8eaaa0 ==
    /\ Fresh
    /\ \E e \in Envs({"anthropic_llm"}) :
            RunCell("4f8eaaa0", chain, Dict("animal", "kangaroo"), Patch(e), TRUE)

\* exceptions_to_handle=(KeyboardInterrupt,), under the patch
Cell_e4069ca4 ==
    /\ Fresh
    /\ \E e \in Envs({"anthropic_llm"}) :
            RunCell("e4069ca4", chain_e4069ca4, Dict("animal", "kangaroo"), Patch(e), TRUE)

\* chain = bad_chain.with_fallbacks([good_chain]); chain.invoke({"animal": "turtle"})
Cell_283bfa44 ==
    /\ Fresh
    /\ \E e \in Envs({"chat_model", "OpenAI"}) :
            /\ BadModelName(e)
            /\ RunCell("283bfa44", chain_283bfa44, Dict("animal", "turtle"), e, FALSE)

\* "We can use our "LLM with Fallbacks" as we would a normal LLM": the same
\* runnables invoked outside the patch, on any input
UseLlm ==
    /\ Fresh
    /\ \E e \in Envs({"openai_llm", "anthropic_llm"}), q \in Questions :
            RunCell("llm", llm, Str(q), e, FALSE)

UseChain ==
    /\ Fresh
    /\ \E e \in Envs({"openai_llm", "anthropic_llm"}), in \in ChainInputs :
            RunCell("chain", chain, in, e, FALSE)

UseChainHandling ==
    /\ Fresh
    /\ \E e \in Envs({"openai_llm", "anthropic_llm"}), in \in ChainInputs :
            RunCell("chain_e4069ca4", chain_e4069ca4, in, e, FALSE)

UseSequenceFallbacks ==
    /\ Fresh
    /\ \E e \in Envs({"chat_model", "OpenAI"}), in \in ChainInputs :
            RunCell("chain_283bfa44", chain_283bfa44, in, e, FALSE)

UseOpenai ==
    /\ Fresh
    /\ \E e \in Envs({"openai_llm"}), q \in Questions :
            RunCell("openai_llm", openai_llm, Str(q), e, FALSE)

(***************************************************************************)
(* The "Add chat history" notebook.                                        *)
(***************************************************************************)
Message(type, content) == [type |-> type, content |-> content]
HumanMessage(content) == Message("human", content)
AIMessage(content) == Message("ai", content)
NoMessage == Message("None", "")

\* the dict given to rag_chain.invoke; history_key tells whether "chat_history"
\* is a list, None, or missing from the dict
ChainInput(q, history_key, history) ==
    [question |-> q, has_question |-> TRUE,
     history_key |-> history_key, chat_history |-> history,
     has_context |-> FALSE, context |-> ""]

\* a dict without the "question" key
InputWithoutQuestion(history_key, history) ==
    [ChainInput("", history_key, history) EXCEPT !.has_question = FALSE]

\* input.get("chat_history") is truthy: the key is there, not None, not empty
HasHistory(in) == in.history_key = "list" /\ Len(in.chat_history) > 0

\* a prompt template: message parts, each a role, a text, and the variable
\* substituted after it; a placeholder names the list it inserts
Part(kind, text, var) == [kind |-> kind, text |-> text, var |-> var]
MessagesPlaceholder(variable_name) == Part("placeholder", "", variable_name)

contextualize_q_system_prompt ==
    "Given a chat history and the latest user question which might reference context in the chat history, formulate a standalone question which can be understood without the chat history. Do NOT answer the question, just reformulate it if needed and otherwise return it as is."

\* faulty variant: the placeholder put after the human message
contextualize_q_prompt_history_last ==
    << Part("system", contextualize_q_system_prompt, ""),
       Part("human", "", "question"),
       MessagesPlaceholder("chat_history") >>

contextualize_q_prompt ==
    << Part("system", contextualize_q_system_prompt, ""),
       MessagesPlaceholder("chat_history"),
       Part("human", "", "question") >>

qa_system_prompt ==
    "You are an assistant for question-answering tasks. Use the following pieces of retrieved context to answer the question. If you don't know the answer, just say that you don't know. Use three sentences maximum and keep the answer concise.\n"

qa_prompt ==
    << Part("system", qa_system_prompt, "context"),
       MessagesPlaceholder("chat_history"),
       Part("human", "", "question") >>

Variable(in, var) ==
    CASE var = "question" -> in.question
      [] var = "context" -> in.context
      [] OTHER -> ""

\* ChatPromptTemplate.format_messages: the parts in order, a placeholder
\* replaced by the messages of the list it names
RECURSIVE FormatMessages(_, _)
FormatMessages(parts, in) ==
    IF parts = <<>> THEN <<>>
    ELSE LET p == Head(parts)
         IN  (IF p.kind = "placeholder" THEN in.chat_history
              ELSE <<Message(p.kind, p.text \o Variable(in, p.var))>>)
             \o FormatMessages(Tail(parts), in)

\* def format_docs(docs): return "\n\n".join(doc.page_content for doc in docs)
RECURSIVE format_docs(_)
format_docs(ds) ==
    IF ds = <<>> THEN ""
    ELSE IF Len(ds) = 1 THEN ds[1].page_content
    ELSE ds[1].page_content \o "\n\n" \o format_docs(Tail(ds))

\* what a call of contextualized_question did: the chain or the value returned,
\* the error raised, and the keys of the input it read
Route(is_chain, value, raised, reads) ==
    [chain |-> is_chain, value |-> value, raised |-> raised, reads |-> reads]
NoRoute == Route(FALSE, "", "", {})

\* input["question"]
Question(in) ==
    IF in.has_question THEN Route(FALSE, in.question, "", {"chat_history", "question"})
    ELSE Route(FALSE, "", "KeyError", {"chat_history", "question"})

\* faulty variant: the condition inverted
contextualized_question_inverted(in) ==
    IF ~HasHistory(in) THEN Route(TRUE, "", "", {"chat_history"})
    ELSE Question(in)

\* faulty variant: input["chat_history"] in place of input.get("chat_history")
contextualized_question_subscript(in) ==
    IF in.history_key = "absent" THEN Route(FALSE, "", "KeyError", {"chat_history"})
    ELSE IF HasHistory(in) THEN Route(TRUE, "", "", {"chat_history"})
    ELSE Question(in)

\* def contextualized_question(input): the contextualizing chain when the
\* history is truthy, the question itself otherwise
contextualized_question(in) ==
    IF HasHistory(in) THEN Route(TRUE, "", "", {"chat_history"})
    ELSE Question(in)

MaxTurns == 2
MaxDocs == 2
MaxInvocations == 3
MaxHistory == 2

UserQuestions == {"What is Task Decomposition?", "What are common ways of doing it?"}
Standalone(q) == {q, "What are common ways of doing Task Decomposition?"}
Answers == {"Task decomposition breaks a task into steps.", "I don't know."}
Document(page_content) == [page_content |-> page_content]
Stored == {Document("chunk A"), Document("chunk B")}
Retrievable == UNION {[1..n -> Stored] : n \in 0..MaxDocs}

Step(name, arg) == [step |-> name, arg |-> arg]

\* the dicts contextualized_question is applied to on its own: with or without
\* the "question" key; "chat_history" a list, None, or missing
HistoryMessages ==
    {HumanMessage(q) : q \in UserQuestions} \cup {AIMessage(a) : a \in Answers}
Histories == UNION {[1..n -> HistoryMessages] : n \in 0..MaxHistory}
RouteInputs ==
    {ChainInput(q, "list", h) : q \in UserQuestions, h \in Histories}
    \cup {InputWithoutQuestion("list", h) : h \in Histories}
    \cup {ChainInput(q, k, <<>>) : q \in UserQuestions, k \in {"None", "absent"}}
    \cup {InputWithoutQuestion(k, <<>>) : k \in {"None", "absent"}}

\* faulty variant: every invocation is given a new empty list as its history
Ask_fresh_history ==
    /\ pc \in {"idle", "returned"}
    /\ invocations < MaxInvocations
    /\ \E q \in UserQuestions :
          /\ question' = q
          /\ chain_input' = ChainInput(q, "list", <<>>)
    /\ pc' = "contextualized_question"
    /\ invocations' = invocations + 1
    /\ routed' = NoRoute
    /\ query' = ""
    /\ docs' = <<>>
    /\ messages' = <<>>
    /\ trace' = <<>>
    /\ UNCHANGED <<chat_history, ai_msg, turns>>
    /\ UNCHANGED fbVars

\* ai_msg = rag_chain.invoke({"question": question, "chat_history": chat_history}):
\* the call enters RunnablePassthrough.assign with the caller's dict
Ask ==
    /\ pc \in {"idle", "returned"}
    /\ invocations < MaxInvocations
    /\ \E q \in UserQuestions :
          /\ question' = q
          /\ chain_input' = ChainInput(q, "list", chat_history)
    /\ pc' = "contextualized_question"
    /\ invocations' = invocations + 1
    /\ routed' = NoRoute
    /\ query' = ""
    /\ docs' = <<>>
    /\ messages' = <<>>
    /\ trace' = <<>>
    /\ UNCHANGED <<chat_history, ai_msg, turns>>
    /\ UNCHANGED fbVars
\* the routing function; a returned chain is invoked in its place, and an error
\* of the function ends the invocation
ContextualizedQuestion ==
    /\ pc = "contextualized_question"
    /\ routed' = contextualized_question(chain_input)
    /\ pc' = IF routed'.raised # "" THEN "raised"
             ELSE IF routed'.chain THEN "contextualize_q_prompt" ELSE "retriever"
    /\ query' = routed'.value
    /\ trace' = Append(trace, Step("contextualized_question", chain_input.question))
    /\ UNCHANGED <<chat_history, question, ai_msg, chain_input, docs, messages, turns, invocations>>
    /\ UNCHANGED fbVars

\* contextualize_q_chain = contextualize_q_prompt | llm | StrOutputParser()
ContextualizeQPrompt ==
    /\ pc = "contextualize_q_prompt"
    /\ messages' = FormatMessages(contextualize_q_prompt, chain_input)
    /\ pc' = "contextualize_llm"
    /\ trace' = Append(trace, Step("contextualize_q_prompt", chain_input.question))
    /\ UNCHANGED <<chat_history, question, ai_msg, chain_input, query, docs, turns, invocations, routed>>
    /\ UNCHANGED fbVars

\* the contextualizing model call and the parser: a standalone question, as a str
ContextualizeLlm ==
    /\ pc = "contextualize_llm"
    /\ \E standalone \in Standalone(messages[Len(messages)].content) : query' = standalone
    /\ pc' = "retriever"
    /\ trace' = Append(trace, Step("contextualize_llm", messages[Len(messages)].content))
    /\ UNCHANGED <<chat_history, question, ai_msg, chain_input, docs, messages, turns, invocations, routed>>
    /\ UNCHANGED fbVars

\* faulty variant: format_docs left out of the context sub-chain
Retrieve_without_format_docs ==
    /\ pc = "retriever"
    /\ \E found \in Retrievable : docs' = found
    /\ pc' = "qa_prompt"
    /\ trace' = Append(trace, Step("retriever", query))
    /\ UNCHANGED <<chat_history, question, ai_msg, chain_input, query, messages, turns, invocations, routed>>
    /\ UNCHANGED fbVars

\* retriever: some stored documents for the query
Retrieve ==
    /\ pc = "retriever"
    /\ \E found \in Retrievable : docs' = found
    /\ pc' = "format_docs"
    /\ trace' = Append(trace, Step("retriever", query))
    /\ UNCHANGED <<chat_history, question, ai_msg, chain_input, query, messages, turns, invocations, routed>>
    /\ UNCHANGED fbVars

\* faulty variant: the reformulated question also assigned to the "question" key
FormatDocs_overwriting_question ==
    /\ pc = "format_docs"
    /\ chain_input' = [chain_input EXCEPT !.has_context = TRUE, !.context = format_docs(docs),
                                          !.question = query]
    /\ pc' = "qa_prompt"
    /\ trace' = Append(trace, Step("format_docs", ""))
    /\ UNCHANGED <<chat_history, question, ai_msg, query, docs, messages, turns, invocations, routed>>
    /\ UNCHANGED fbVars

\* format_docs, and assign() adding its output to the dict under "context"
FormatDocs ==
    /\ pc = "format_docs"
    /\ chain_input' = [chain_input EXCEPT !.has_context = TRUE, !.context = format_docs(docs)]
    /\ pc' = "qa_prompt"
    /\ trace' = Append(trace, Step("format_docs", ""))
    /\ UNCHANGED <<chat_history, question, ai_msg, query, docs, messages, turns, invocations, routed>>
    /\ UNCHANGED fbVars

QaPrompt ==
    /\ pc = "qa_prompt"
    /\ messages' = FormatMessages(qa_prompt, chain_input)
    /\ pc' = "llm"
    /\ trace' = Append(trace, Step("qa_prompt", chain_input.question))
    /\ UNCHANGED <<chat_history, question, ai_msg, chain_input, query, docs, turns, invocations, routed>>
    /\ UNCHANGED fbVars

\* the answering model call: rag_chain ends with llm, so invoke returns an AIMessage
AnswerLlm ==
    /\ pc = "llm"
    /\ \E a \in Answers : ai_msg' = AIMessage(a)
    /\ pc' = "returned"
    /\ trace' = Append(trace, Step("llm", messages[Len(messages)].content))
    /\ UNCHANGED <<chat_history, question, chain_input, query, docs, messages, turns, invocations, routed>>
    /\ UNCHANGED fbVars

\* faulty variant: only the answer is appended
Extend_answer_only ==
    /\ pc = "returned"
    /\ turns < MaxTurns
    /\ chat_history' = chat_history \o <<ai_msg>>
    /\ turns' = turns + 1
    /\ pc' = "idle"
    /\ UNCHANGED <<question, ai_msg, chain_input, query, docs, messages, trace, invocations, routed>>
    /\ UNCHANGED fbVars

\* chat_history.extend([HumanMessage(content=question), ai_msg])
Extend ==
    /\ pc = "returned"
    /\ turns < MaxTurns
    /\ chat_history' = chat_history \o <<HumanMessage(question), ai_msg>>
    /\ turns' = turns + 1
    /\ pc' = "idle"
    /\ UNCHANGED <<question, ai_msg, chain_input, query, docs, messages, trace, invocations, routed>>
    /\ UNCHANGED fbVars

\* chat_history = []
InitChat ==
    /\ chat_history = <<>>
    /\ question = ""
    /\ ai_msg = NoMessage
    /\ pc = "idle"
    /\ chain_input = ChainInput("", "list", <<>>)
    /\ query = ""
    /\ docs = <<>>
    /\ messages = <<>>
    /\ trace = <<>>
    /\ turns = 0
    /\ invocations = 0
    /\ routed = NoRoute

NextChat ==
    \/ Ask
    \/ ContextualizedQuestion
    \/ ContextualizeQPrompt
    \/ ContextualizeLlm
    \/ Retrieve
    \/ FormatDocs
    \/ QaPrompt
    \/ AnswerLlm
    \/ Extend

InitFallbacks ==
    /\ cell = "none"
    /\ input = NoValue
    /\ env = [m \in ModelNames |-> Quiet]
    /\ result = [ok |-> TRUE, val |-> NoValue, err |-> ""]
    /\ log = <<>>
    /\ printed = ""

Init == InitFallbacks /\ InitChat

Next ==
    \/ Cell_584461ab
    \/ Cell_4fc1e673
    \/ Cell_4f8eaaa0
    \/ Cell_e4069ca4
    \/ Cell_283bfa44
    \/ UseLlm
    \/ UseChain
    \/ UseChainHandling
    \/ UseSequenceFallbacks
    \/ UseOpenai

Spec == Init /\ [][Next]_vars

SpecChat == Init /\ [][NextChat]_vars

\* contextualized_question on its own, applied to any input dict
InitRoute ==
    /\ InitFallbacks
    /\ chat_history = <<>>
    /\ question = ""
    /\ ai_msg = NoMessage
    /\ pc = "contextualized_question"
    /\ chain_input \in RouteInputs
    /\ query = ""
    /\ docs = <<>>
    /\ messages = <<>>
    /\ trace = <<>>
    /\ turns = 0
    /\ invocations = 1
    /\ routed = NoRoute

NextRoute == ContextualizedQuestion

SpecRoute == InitRoute /\ [][NextRoute]_vars

(***************************************************************************)
(* Properties of the "Add fallbacks" notebook.                             *)
(***************************************************************************)
Calls(name) == {i \in 1..Len(log) : log[i].name = name}
Invocations(name) == {i \in Calls(name) : log[i].attempt = 1}
OnBranch(branch) == {i \in 1..Len(log) : log[i].branch = branch}
First(S) == CHOOSE i \in S : \A j \in S : i <= j
Last(S) == CHOOSE i \in S : \A j \in S : j <= i

\* the invocation of the named model ended by raising / by returning
Failed(name) == Calls(name) # {} /\ log[Last(Calls(name))].outcome # "ok"
Succeeded(name) == Calls(name) # {} /\ log[Last(Calls(name))].outcome = "ok"
ErrorOf(name) == log[Last(Calls(name))].outcome
InputOf(name) == log[Last(Calls(name))].input

LlmCells == {"4fc1e673", "4f8eaaa0", "llm", "chain"}
HandlingCells == {"e4069ca4", "chain_e4069ca4"}
SequenceCells == {"283bfa44", "chain_283bfa44"}
PlainCells == {"584461ab", "openai_llm"}

PrimaryRaisedHandledError ==
    /\ cell \in LlmCells
    /\ Failed("openai_llm")
    /\ IsInstance(ErrorOf("openai_llm"), DefaultExceptionsToHandle)

FallbackCalledOnceOnSameInput ==
    /\ Cardinality(Invocations("anthropic_llm")) = 1
    /\ \A i \in Calls("anthropic_llm") : log[i].input = InputOf("openai_llm")

\* C1 as stated: with the default handled errors, whenever the primary call raises
\* an error, invoke calls the fallback exactly once with the input the primary
\* received, returns the fallback's result, and the primary's error does not
\* reach the caller.
C1_Original ==
    PrimaryRaisedHandledError =>
        /\ FallbackCalledOnceOnSameInput
        /\ result.ok
        /\ result.val = ModelOutput(anthropic_llm, InputOf("openai_llm"))
        /\ result.err # ErrorOf("openai_llm")

\* C1 amended: with the default handled errors, whenever the primary call raises
\* an error of that set (any Exception), invoke calls the fallback exactly once with the input the primary
\* received (also after a prompt step); when the fallback call returns, invoke
\* returns its result and no error reaches the caller; when the fallback call
\* raises a handled error too, invoke raises the primary's error, and when it
\* raises an error that is not handled, invoke raises that error.
C1_FallbackOnPrimaryError ==
    PrimaryRaisedHandledError =>
        /\ FallbackCalledOnceOnSameInput
        /\ Succeeded("anthropic_llm") =>
              /\ result.ok
              /\ result.err = ""
              /\ result.val = ModelOutput(anthropic_llm, InputOf("openai_llm"))
        /\ Failed("anthropic_llm") =>
              /\ ~result.ok
              /\ result.err = IF IsInstance(ErrorOf("anthropic_llm"), DefaultExceptionsToHandle)
                              THEN ErrorOf("openai_llm")
                              ELSE ErrorOf("anthropic_llm")

\* C1 witness: under the patch, prompt | llm fell back to Anthropic, which answered
\* the prompt value the primary had received
C1_Witness ==
    /\ cell = "4f8eaaa0"
    /\ ErrorOf("openai_llm") = "RateLimitError"
    /\ Succeeded("anthropic_llm")
    /\ InputOf("anthropic_llm").type = "ChatPromptValue"
    /\ result.ok

\* C2: with exceptions_to_handle=(KeyboardInterrupt,), a primary error outside the
\* set never reaches the fallback and is itself raised to the caller; the fallback
\* is called only after a primary error of the set.
C2_OnlyHandledErrorsFallBack ==
    cell \in HandlingCells =>
        /\ (Failed("openai_llm") /\ ~IsInstance(ErrorOf("openai_llm"), {"KeyboardInterrupt"})) =>
              /\ Calls("anthropic_llm") = {}
              /\ ~result.ok
              /\ result.err = ErrorOf("openai_llm")
        /\ Calls("anthropic_llm") # {} =>
              /\ Failed("openai_llm")
              /\ IsInstance(ErrorOf("openai_llm"), {"KeyboardInterrupt"})

\* C2 witness: the cell's patched run: RateLimitError raised to the caller, who
\* prints "Hit error"
C2_Witness ==
    /\ cell = "e4069ca4"
    /\ Failed("openai_llm")
    /\ ErrorOf("openai_llm") = "RateLimitError"
    /\ result.err = "RateLimitError"
    /\ printed = "Hit error"

\* C3: when the primary call returns without error no fallback is invoked and
\* invoke returns the primary's result; every fallback call is preceded, in the
\* same invocation, by a failed primary call.
C3_NoFallbackWithoutPrimaryFailure ==
    /\ cell \in LlmCells \cup HandlingCells =>
          /\ Succeeded("openai_llm") =>
                /\ Calls("anthropic_llm") = {}
                /\ result.ok
                /\ result.val = ModelOutput(openai_llm, InputOf("openai_llm"))
          /\ \A i \in Calls("anthropic_llm") :
                \E j \in Calls("openai_llm") : j < i /\ log[j].outcome # "ok"
    /\ cell \in SequenceCells =>
          /\ Succeeded("chat_model") =>
                /\ OnBranch("fallback") = {}
                /\ result.ok
                /\ result.val = Str(ModelOutput(chat_model, InputOf("chat_model")).text)
          /\ \A i \in OnBranch("fallback") :
                \E j \in OnBranch("primary") : j < i /\ log[j].outcome # "ok"

\* C3 witness: the primary answered, inside prompt | llm
C3_Witness ==
    /\ cell = "chain"
    /\ Succeeded("openai_llm")
    /\ result.ok
    /\ result.val.type = "AIMessage"

C8_UnwrappedErrorRaised ==
    (cell \in PlainCells /\ Failed("openai_llm")) =>
        /\ ~result.ok
        /\ result.err = ErrorOf("openai_llm")
        /\ result.val = NoValue
        /\ Len(log) = 1
        /\ \A i \in 1..Len(log) : log[i].name = "openai_llm"

\* C8 witness: the patched cell: RateLimitError reached the caller, who printed
\* "Hit error"
C8_Witness ==
    /\ cell = "584461ab"
    /\ Failed("openai_llm")
    /\ result.err = "RateLimitError"
    /\ printed = "Hit error"

PrimarySequenceRaisedHandledError ==
    /\ cell \in SequenceCells
    /\ OnBranch("primary") # {}
    /\ log[Last(OnBranch("primary"))].outcome # "ok"
    /\ IsInstance(log[Last(OnBranch("primary"))].outcome, DefaultExceptionsToHandle)

C10_ResultIsString ==
    (cell \in SequenceCells /\ result.ok) =>
        /\ result.val.type = "str"
        /\ result.val.type # "AIMessage"

\* C10 witness: the chat-model branch produced the result, through the parser
C10_Witness ==
    /\ cell = "chain_283bfa44"
    /\ result.ok
    /\ Succeeded("chat_model")
    /\ OnBranch("fallback") = {}
    /\ log[Len(log)].name = "StrOutputParser"

(***************************************************************************)
(* Properties of the "Add chat history" notebook.                          *)
(***************************************************************************)
Ran(name) == \E i \in 1..Len(trace) : trace[i].step = name
ArgOf(name) == trace[CHOOSE i \in 1..Len(trace) : trace[i].step = name].arg

\* C4: the contextualizing sub-chain, with its model call, runs if and only if the
\* input's chat history is not empty; with an empty history the retriever is
\* queried with the input question verbatim and no contextualizing call is made.
C4_ContextualizeIffHistory ==
    /\ (Ran("contextualize_q_prompt") \/ Ran("contextualize_llm")) =>
          chain_input.chat_history # <<>>
    /\ Ran("retriever") =>
          /\ chain_input.chat_history # <<>> =>
                /\ Ran("contextualize_q_prompt")
                /\ Ran("contextualize_llm")
          /\ chain_input.chat_history = <<>> =>
                /\ ArgOf("retriever") = question
                /\ ~Ran("contextualize_llm")

\* C4 witness: with a history of one turn the question was reformulated by the
\* model and the retriever queried with the reformulation
C4_Witness ==
    /\ pc = "returned"
    /\ Len(chain_input.chat_history) = 2
    /\ Ran("contextualize_llm")
    /\ ArgOf("retriever") # question

\* C5: rag_chain.invoke never modifies the chat history it is given; the history
\* changes only when the caller extends it after an invocation, each time by the
\* human question followed by the AI answer returned for it, so that n completed
\* turns leave 2n messages alternating human, AI.
C5_HistoryOnlyExtendedByCaller ==
    /\ [][ /\ chat_history' # chat_history =>
                /\ pc = "returned"
                /\ ai_msg.type = "ai"
                /\ chat_history' = chat_history \o <<HumanMessage(question), ai_msg>>
           /\ pc \notin {"idle", "returned"} =>
                /\ chat_history' = chat_history
                /\ chain_input'.chat_history = chain_input.chat_history
                /\ chain_input.chat_history = chat_history ]_vars
    /\ [](/\ Len(chat_history) = 2 * turns
          /\ \A i \in 1..Len(chat_history) :
                chat_history[i].type = IF i % 2 = 1 THEN "human" ELSE "ai")

\* C5 witness: two completed turns, four messages
C5_Witness ==
    /\ turns = 2
    /\ pc = "idle"
    /\ Len(chat_history) = 4
    /\ chat_history[3] = HumanMessage(question)
    /\ chat_history[4] = ai_msg

\* C6: every prompt built by contextualize_q_prompt and by qa_prompt is the system
\* message, then the chat_history messages in their order, then the human message
\* with the latest question; with an empty history, system then human only.
C6_PromptMessageOrder ==
    messages # <<>> =>
        LET n == Len(messages)
            h == chain_input.chat_history
        IN  /\ n = Len(h) + 2
            /\ messages[1].type = "system"
            /\ messages[1].content =
                  IF Ran("qa_prompt") THEN qa_system_prompt \o chain_input.context
                  ELSE contextualize_q_system_prompt
            /\ \A i \in 1..Len(h) : messages[i + 1] = h[i]
            /\ messages[n] = HumanMessage(chain_input.question)
            /\ h = <<>> => messages = <<messages[1], HumanMessage(question)>>

\* C6 witness: the contextualizing prompt built over a history of one turn
C6_Witness ==
    /\ pc = "contextualize_llm"
    /\ Len(chain_input.chat_history) = 2
    /\ Len(messages) = 4
    /\ messages[2].type = "human"
    /\ messages[3].type = "ai"
    /\ messages[4] = HumanMessage(question)

ModelCalls == SelectSeq(trace, LAMBDA st : st.step \in {"contextualize_llm", "llm"})
StepNames(tr) == [i \in 1..Len(tr) |-> tr[i].step]

\* the caller has appended question and answer after every earlier invocation
AppendedAfterEveryTurn == invocations = turns + 1

\* C11: in a conversation that starts with an empty history and whose caller
\* appends question and answer after every turn, the first invocation makes
\* exactly one model call, the answering one, and every later invocation exactly
\* two: the contextualizing call followed by the answering call.
C11_ModelCallsPerInvocation ==
    (pc = "returned" /\ AppendedAfterEveryTurn) =>
        StepNames(ModelCalls) = IF invocations = 1 THEN <<"llm">>
                                ELSE <<"contextualize_llm", "llm">>

\* C11 witness: the third invocation of such a conversation has returned after
\* two model calls
C11_Witness ==
    /\ pc = "returned"
    /\ invocations = 3
    /\ turns = 2
    /\ Len(ModelCalls) = 2

\* the steps rag_chain runs for the input it was given, in order
ExpectedSteps ==
    IF chain_input.chat_history # <<>>
    THEN <<"contextualized_question", "contextualize_q_prompt", "contextualize_llm",
           "retriever", "format_docs", "qa_prompt", "llm">>
    ELSE <<"contextualized_question", "retriever", "format_docs", "qa_prompt", "llm">>

IsPrefix(a, b) == Len(a) <= Len(b) /\ a = SubSeq(b, 1, Len(a))

\* C12: within one invocation the steps run one at a time in a fixed order, each
\* after the previous one has returned: the contextualizing model call (only with
\* a non-empty history), retrieval, format_docs, qa_prompt, the answering model
\* call; the answering model is never called before retrieval has completed.
C12_StepsInFixedOrder ==
    /\ IsPrefix(StepNames(trace), ExpectedSteps)
    /\ pc = "returned" => StepNames(trace) = ExpectedSteps
    /\ pc \notin {"idle", "returned"} => pc = ExpectedSteps[Len(trace) + 1]
    /\ \A i \in 1..Len(trace) :
          trace[i].step = "llm" =>
              \E j \in 1..(i - 1) : trace[j].step = "retriever"

\* C12 witness: an invocation with history has returned after all seven steps
C12_Witness ==
    /\ pc = "returned"
    /\ chain_input.chat_history # <<>>
    /\ Len(trace) = 7
    /\ trace[3].step = "contextualize_llm"
    /\ trace[4].step = "retriever"
    /\ trace[7].step = "llm"

\* C13: the reformulated question serves only as the retriever query: rag_chain
\* adds just the "context" key to its input, so the question and the chat history
\* that reach qa_prompt and the answering model are the caller's, also when the
\* question was reformulated.
C13_OnlyContextAdded ==
    /\ pc \in {"qa_prompt", "llm", "returned"} =>
          /\ chain_input = [ChainInput(question, "list", chat_history)
                               EXCEPT !.has_context = TRUE, !.context = format_docs(docs)]
          /\ ArgOf("retriever") = query
    /\ pc \in {"llm", "returned"} =>
          /\ ArgOf("qa_prompt") = question
          /\ messages = <<Message("system", qa_system_prompt \o format_docs(docs))>>
                           \o chat_history \o <<HumanMessage(question)>>
    /\ pc = "returned" => ArgOf("llm") = question

\* C13 witness: the model reformulated the question, the retriever was queried
\* with the reformulation, and the answering model was asked the caller's question
C13_Witness ==
    /\ pc = "returned"
    /\ Ran("contextualize_llm")
    /\ query # question
    /\ ArgOf("retriever") = query
    /\ messages[Len(messages)] = HumanMessage(question)

(***************************************************************************)
(* Properties of contextualized_question on its own.                       *)
(***************************************************************************)
Applied == pc # "contextualized_question"
NoHistory(in) == in.history_key \in {"absent", "None"} \/ in.chat_history = <<>>

\* C14: contextualized_question treats an input whose "chat_history" is absent,
\* None or an empty list alike: no error for the missing key, the input's
\* "question" value returned unchanged; it returns the contextualizing chain only
\* for a non-empty history, and then does not read the "question" key.
C14_RoutingOfContextualizedQuestion ==
    Applied =>
        /\ (NoHistory(chain_input) /\ chain_input.has_question) =>
              routed = Route(FALSE, chain_input.question, "", {"chat_history", "question"})
        /\ routed.raised # "" => (NoHistory(chain_input) /\ ~chain_input.has_question)
        /\ routed.chain <=> ~NoHistory(chain_input)
        /\ routed.chain => (routed.raised = "" /\ "question" \notin routed.reads)

\* C14 witness: a dict without the "chat_history" key: the question came back and
\* nothing was raised
C14_Witness ==
    /\ Applied
    /\ chain_input.history_key = "absent"
    /\ chain_input.has_question
    /\ routed.raised = ""
    /\ ~routed.chain
    /\ query = chain_input.question
    /\ query \in UserQuestions

====
